---------------------------- MODULE Spec2Model ----------------------------
(* A model of wide_to_long_pyqt5.py: the cell-address parser a1_to_rc, the  *)
(* block reader read_block_from_header, the reshape-and-write function      *)
(* wide_to_long_from_excel, the background thread ConvertWorker and the     *)
(* start_convert handler of MainWindow.                                     *)
(*                                                                          *)
(* Python str values are sequences of one-character strings, so that strip, *)
(* upper, lower, int() and str() are computed character by character.       *)
EXTENDS Integers, Sequences, FiniteSets, TLC

VARIABLES
    header_cell,      \* the header_cell argument (a str)
    ws,               \* the worksheet handed to read_block_from_header
    ret,              \* what the function under analysis returned or raised
    input_path,       \* the input_path argument of wide_to_long_from_excel
    id_col_name,      \* the id_col_name argument (a str or None)
    files,            \* the file system: path -> content, absent paths left out
    files_before,     \* ghost: the file system when the run under analysis began
    threads,          \* the ConvertWorker threads created so far, oldest first
    btn_run_enabled,  \* MainWindow.btn_run.isEnabled()
    progress,         \* MainWindow.progress.value()
    dialog            \* the message box that is open, "none" when there is none

vars == <<header_cell, ws, ret, input_path, id_col_name, files, files_before,
          threads, btn_run_enabled, progress, dialog>>

(***************************************************************************)
(* Bounds of the model.                                                    *)
(***************************************************************************)
MaxAddrLen == 4     \* longest address string tried on a1_to_rc
MaxRow == 3         \* most rows of a worksheet (ws.max_row)
MaxCol == 3         \* most columns of a worksheet (ws.max_column)
MaxFilled == 3      \* most cells of a worksheet that hold a value
MaxWorkerRow == 2   \* most rows of the worksheet a ConvertWorker reads
MaxWorkerCol == 2   \* most columns of the worksheet a ConvertWorker reads
MaxClicks == 3      \* most conversions started from the form in one behaviour

(***************************************************************************)
(* Characters and str methods.                                             *)
(***************************************************************************)
UPPER == <<"A","B","C","D","E","F","G","H","I","J","K","L","M",
           "N","O","P","Q","R","S","T","U","V","W","X","Y","Z">>
LOWER == <<"a","b","c","d","e","f","g","h","i","j","k","l","m",
           "n","o","p","q","r","s","t","u","v","w","x","y","z">>
DIGITS == <<"0","1","2","3","4","5","6","7","8","9">>

IndexIn(ch, seq) == CHOOSE i \in 1..Len(seq) : seq[i] = ch
IsIn(ch, seq) == \E i \in 1..Len(seq) : seq[i] = ch
IsLetter(ch) == IsIn(ch, UPPER) \/ IsIn(ch, LOWER)
IsDigit(ch) == IsIn(ch, DIGITS)
IsSpace(ch) == ch \in {" ", "\t", "\n"}
DigitVal(ch) == IndexIn(ch, DIGITS) - 1

\* str.upper / str.lower, one character
upper_ch(ch) == IF IsIn(ch, LOWER) THEN UPPER[IndexIn(ch, LOWER)] ELSE ch
lower_ch(ch) == IF IsIn(ch, UPPER) THEN LOWER[IndexIn(ch, UPPER)] ELSE ch
upper(s) == [i \in 1..Len(s) |-> upper_ch(s[i])]
lower(s) == [i \in 1..Len(s) |-> lower_ch(s[i])]

\* str.strip(): drop leading and trailing whitespace
RECURSIVE lstrip(_)
lstrip(s) == IF s # <<>> /\ IsSpace(Head(s)) THEN lstrip(Tail(s)) ELSE s
RECURSIVE rstrip(_)
rstrip(s) ==
    IF s # <<>> /\ IsSpace(s[Len(s)]) THEN rstrip(SubSeq(s, 1, Len(s) - 1)) ELSE s
strip(s) == rstrip(lstrip(s))

\* int(digits) for a non-empty run of decimal digits
RECURSIVE int(_)
int(s) == IF s = <<>> THEN 0
          ELSE 10 * int(SubSeq(s, 1, Len(s) - 1)) + DigitVal(s[Len(s)])

\* str(n) for an int n >= 0
RECURSIVE str_int(_)
str_int(n) == IF n < 10 THEN <<DIGITS[n + 1]>>
              ELSE str_int(n \div 10) \o <<DIGITS[(n % 10) + 1]>>

\* All strings over alphabet A of length at most n
RECURSIVE StringsUpTo(_, _)
StringsUpTo(A, n) ==
    IF n = 0 THEN {<<>>}
    ELSE LET shorter == StringsUpTo(A, n - 1)
         IN shorter \cup {Append(s, ch) : s \in shorter, ch \in A}

(***************************************************************************)
(* Outcomes of a call: a returned value or a raised exception.  kind names *)
(* the error kind; the code raises ValueError or FileNotFoundError with a  *)
(* message of its own for each.                                            *)
(***************************************************************************)
Return(v) == [ok |-> TRUE, value |-> v, kind |-> "none"]
Raise(k) == [ok |-> FALSE, value |-> <<>>, kind |-> k]
NotCalled == [ok |-> FALSE, value |-> <<>>, kind |-> "not called"]

(***************************************************************************)
(* a1_to_rc and A1_REGEX                                                   *)
(***************************************************************************)
\* the length of the longest prefix of s made of letters: ([A-Za-z]+)
RECURSIVE LetterPrefixLen(_)
LetterPrefixLen(s) ==
    IF s # <<>> /\ IsLetter(Head(s)) THEN 1 + LetterPrefixLen(Tail(s)) ELSE 0

AllDigits(s) == \A i \in 1..Len(s) : IsDigit(s[i])

\* col = col * 26 + (ord(ch) - ord('A') + 1) over col_letters.upper()
RECURSIVE ColumnNumber(_)
ColumnNumber(letters) ==
    IF letters = <<>> THEN 0
    ELSE ColumnNumber(SubSeq(letters, 1, Len(letters) - 1)) * Len(UPPER)
         + IndexIn(upper_ch(letters[Len(letters)]), UPPER)

\* re.fullmatch(r"([A-Za-z]+)(\d+)", a1.strip())
a1_to_rc(a1) ==
    LET s == strip(a1)
        k == LetterPrefixLen(s)
        col_letters == SubSeq(s, 1, k)
        row_str == SubSeq(s, k + 1, Len(s))
    IN IF k = 0 \/ row_str = <<>> \/ ~AllDigits(row_str)
       THEN Raise("InvalidAddress")
       ELSE Return([row |-> int(row_str), col |-> ColumnNumber(col_letters)])

\* A1_REGEX.match(s) for r"^[A-Za-z]+[1-9]\d*$"
\* ($ also matches just before a final newline)
A1_REGEX_match(s) ==
    LET t == IF s # <<>> /\ s[Len(s)] = "\n" THEN SubSeq(s, 1, Len(s) - 1) ELSE s
        k == LetterPrefixLen(t)
        row_str == SubSeq(t, k + 1, Len(t))
    IN /\ k > 0
       /\ row_str # <<>>
       /\ AllDigits(row_str)
       /\ row_str[1] # "0"

(***************************************************************************)
(* Cell values.  An openpyxl cell holds None, a str or a number; every     *)
(* value is a record of one shape so that any two can be compared.         *)
(***************************************************************************)
NoneV == [t |-> "None", s |-> <<>>, n |-> 0]
StrV(x) == [t |-> "str", s |-> x, n |-> 0]
IntV(k) == [t |-> "int", s |-> <<>>, n |-> k]

\* str(v)
str(v) == CASE v.t = "str" -> v.s
            [] v.t = "int" -> str_int(v.n)
            [] OTHER -> <<"N","o","n","e">>

\* the test both trimming loops apply to a cell: v is None or str(v).strip() == ""
is_blank(v) == v.t = "None" \/ strip(str(v)) = <<>>

(***************************************************************************)
(* Worksheets.  A worksheet is max_row, max_column and the value of every  *)
(* cell within them.  The worksheets tried have at most MaxFilled cells    *)
(* that are not None; such a cell holds either a single space or a value   *)
(* that tells its place: text in column 1 ("a1", "a2", ...), text padded   *)
(* with spaces in column 2 (" b1 "), an int in column 3 (13, 23, ...).     *)
(***************************************************************************)
CellText(r, c) == <<LOWER[c]>> \o str_int(r)
Content(r, c) ==
    CASE c % 3 = 1 -> StrV(CellText(r, c))
      [] c % 3 = 2 -> StrV(<<" ">> \o CellText(r, c) \o <<" ">>)
      [] OTHER -> IntV(10 * r + c)
SpaceV == StrV(<<" ">>)

RECURSIVE SubsetsUpTo(_, _)
SubsetsUpTo(S, k) ==
    IF k = 0 THEN {{}}
    ELSE LET P == SubsetsUpTo(S, k - 1)
         IN P \cup {p \cup {x} : p \in P, x \in S}

MkSheet(R, C, filled, spaces) ==
    [max_row |-> R, max_column |-> C,
     cells |-> [rc \in (1..R) \X (1..C) |->
                  IF rc \in spaces THEN SpaceV
                  ELSE IF rc \in filled THEN Content(rc[1], rc[2])
                  ELSE NoneV]]

\* the sets of filled cells tried on a worksheet of R rows and C columns
FilledSets(R, C) == SubsetsUpTo((1..R) \X (1..C), MaxFilled)

\* ws.cell(row=r, column=c).value
cell_value(sheet, r, c) == sheet.cells[<<r, c>>]

(***************************************************************************)
(* read_block_from_header                                                  *)
(***************************************************************************)
\* the nested loops over range(start_r, max_r + 1) and range(start_c, max_c + 1)
RawBlock(sheet, start_r, start_c) ==
    [i \in 1..(IF sheet.max_row >= start_r THEN sheet.max_row - start_r + 1 ELSE 0) |->
       [j \in 1..(IF sheet.max_column >= start_c
                  THEN sheet.max_column - start_c + 1 ELSE 0) |->
          cell_value(sheet, start_r + i - 1, start_c + j - 1)]]

\* mutant: a trailing column is dropped when its header cell alone is empty
col_is_all_none_header_only(data, ci) == is_blank(data[1][ci])

\* col_is_all_none(ci), ci counted from 1
col_is_all_none(data, ci) == \A ri \in 1..Len(data) : is_blank(data[ri][ci])

\* row_is_all_none(ri), ri counted from 1
row_is_all_none(data, ri) == \A ci \in 1..Len(data[ri]) : is_blank(data[ri][ci])

\* while end_c > 0 and col_is_all_none(end_c - 1): end_c -= 1
RECURSIVE TrimEndC(_, _)
TrimEndC(data, end_c) ==
    IF end_c > 0 /\ col_is_all_none(data, end_c) THEN TrimEndC(data, end_c - 1)
    ELSE end_c

\* while end_r > 0 and row_is_all_none(end_r - 1): end_r -= 1
RECURSIVE TrimEndR(_, _)
TrimEndR(data, end_r) ==
    IF end_r > 0 /\ row_is_all_none(data, end_r) THEN TrimEndR(data, end_r - 1)
    ELSE end_r

\* data = [row[:end_c] for row in data]
TrimColumns(data) ==
    LET end_c == TrimEndC(data, Len(data[1]))
    IN [i \in 1..Len(data) |-> SubSeq(data[i], 1, end_c)]

\* mutant: trailing empty rows are kept
TrimRows_none(data) == data

\* data = data[:end_r]
TrimRows(data) == SubSeq(data, 1, TrimEndR(data, Len(data)))

\* if not data or not data[0]: raise
NoValidData(data) == data = <<>> \/ data[1] = <<>>

read_block_from_header(sheet, hc) ==
    LET a == a1_to_rc(hc)
    IN IF ~a.ok THEN a
       ELSE IF a.value.row < 1 THEN Raise("CellIndexError")  \* ws.cell(row=0, ...)
       ELSE LET data == RawBlock(sheet, a.value.row, a.value.col)
            IN IF data = <<>> THEN Raise("EmptyBlock")
               ELSE LET trimmed == TrimRows(TrimColumns(data))
                    IN IF NoValidData(trimmed) THEN Raise("EmptyBlock")
                       ELSE Return(trimmed)

(***************************************************************************)
(* pathlib.  A path is its parent directory and its name.                  *)
(***************************************************************************)
\* name.rfind('.'), counted from 1; 0 when there is no dot
RECURSIVE rfind_dot(_)
rfind_dot(name) ==
    IF name = <<>> THEN 0
    ELSE IF name[Len(name)] = "." THEN Len(name)
    ELSE rfind_dot(SubSeq(name, 1, Len(name) - 1))

\* PurePath.suffix: the last dot and what follows it, unless the dot starts or
\* ends the name
path_suffix(name) ==
    LET i == rfind_dot(name)
    IN IF 1 < i /\ i < Len(name) THEN SubSeq(name, i, Len(name)) ELSE <<>>

\* PurePath.stem
path_stem(name) ==
    LET i == rfind_dot(name)
    IN IF 1 < i /\ i < Len(name) THEN SubSeq(name, 1, i - 1) ELSE name

\* PurePath.with_name
with_name(path, name) == [parent |-> path.parent, name |-> name]

(***************************************************************************)
(* File contents: a workbook holding one (active) worksheet, a file that   *)
(* load_workbook cannot read, or a file written by a run.  Whether         *)
(* load_workbook accepts a file is decided by its content alone.           *)
(***************************************************************************)
NoTable == [columns |-> <<>>, records |-> <<>>]
Workbook(sheet) == [kind |-> "workbook", sheet |-> sheet, table |-> NoTable]
Garbage == [kind |-> "garbage", sheet |-> MkSheet(1, 1, {}, {}), table |-> NoTable]
OldOutput == [kind |-> "old output", sheet |-> MkSheet(1, 1, {}, {}), table |-> NoTable]
Partial == [kind |-> "partial", sheet |-> MkSheet(1, 1, {}, {}), table |-> NoTable]
Written(fmt, table) == [kind |-> fmt, sheet |-> MkSheet(1, 1, {}, {}), table |-> table]

\* the file system with content c at path p
WriteFile(fs, p, c) == [q \in (DOMAIN fs) \cup {p} |-> IF q = p THEN c ELSE fs[q]]

(***************************************************************************)
(* wide_to_long_from_excel.  sheet_name is None (the active sheet) and     *)
(* var_name, value_name are the defaults.  The header names of the         *)
(* worksheets tried are distinct and differ from var_name and value_name.  *)
(***************************************************************************)
var_name == <<"v","a","r","i","a","b","l","e">>
value_name == <<"v","a","l","u","e">>
COL_PREFIX == <<"c","o","l","_">>
LONG_TAG == <<"_","l","o","n","g">>
XLSX == <<".","x","l","s","x">>
CSV == <<".","c","s","v">>
EXCEL_SUFFIXES == {XLSX, <<".","x","l","s","m">>, <<".","x","l","t","x">>,
                   <<".","x","l","t","m">>, <<".","x","l","s">>}

\* header = ["" if h is None else str(h).strip() ...]; "" becomes f"col_{i+1}"
header_name(h, i) ==
    LET text == IF h.t = "None" THEN <<>> ELSE strip(str(h))
    IN IF text = <<>> THEN COL_PREFIX \o str_int(i) ELSE text

header_names(data_block) ==
    [i \in 1..Len(data_block[1]) |-> header_name(data_block[1][i], i)]

\* pandas: isna
isna(v) == v.t = "None"

\* pd.DataFrame(rows, columns=header): each row keeps its index label
DataFrame(rows, header) ==
    [columns |-> header,
     rows |-> [i \in 1..Len(rows) |-> [index |-> i - 1, values |-> rows[i]]]]

\* DataFrame.dropna(how="all")
AllNa(row) == \A j \in 1..Len(row.values) : isna(row.values[j])
KeepsRow(row) == ~AllNa(row)
dropna_all(df) == [df EXCEPT !.rows = SelectSeq(df.rows, KeepsRow)]

\* id_col in df.columns
HasColumn(df, name) == \E j \in 1..Len(df.columns) : df.columns[j] = name
ColumnIndex(df, name) == CHOOSE j \in 1..Len(df.columns) : df.columns[j] = name

\* the positions of value_cols = [c for c in df.columns if c != id_col]
RECURSIVE ValueCols(_, _, _)
ValueCols(df, id_col, j) ==
    IF j > Len(df.columns) THEN <<>>
    ELSE (IF df.columns[j] # id_col THEN <<j>> ELSE <<>>) \o ValueCols(df, id_col, j + 1)

\* mutant: the records of one row after the other, each over all value columns
melt_row_major(df, id_col) ==
    LET idx == ColumnIndex(df, id_col)
        vcols == ValueCols(df, id_col, 1)
        K == Len(vcols)
    IN [k \in 1..(K * Len(df.rows)) |->
          LET j == vcols[((k - 1) % K) + 1]
              r == df.rows[((k - 1) \div K) + 1]
          IN [id |-> r.values[idx], variable |-> df.columns[j],
              value |-> r.values[j], row |-> r.index, col |-> j]]

\* DataFrame.melt(id_vars=[id_col]): one value column after the other, each
\* over all rows.  row and col are ghost fields: the index label of the wide
\* row and the position of the wide column the record comes from.
melt(df, id_col) ==
    LET idx == ColumnIndex(df, id_col)
        vcols == ValueCols(df, id_col, 1)
        N == Len(df.rows)
    IN [k \in 1..(Len(vcols) * N) |->
          LET j == vcols[((k - 1) \div N) + 1]
              r == df.rows[((k - 1) % N) + 1]
          IN [id |-> r.values[idx], variable |-> df.columns[j],
              value |-> r.values[j], row |-> r.index, col |-> j]]

\* long_df[~long_df[value_name].isna()]
HasValue(rec) == ~isna(rec.value)
drop_na_values(records) == SelectSeq(records, HasValue)

\* mutant: the supplied name is lower-cased before it is looked up
id_col_of_lowered(idn, header) ==
    IF idn.t = "None" \/ idn.s = <<>> THEN header[1] ELSE lower(idn.s)

\* id_col = id_col_name or header[0]
id_col_of(idn, header) == IF idn.t = "None" \/ idn.s = <<>> THEN header[1] ELSE idn.s

\* mutant: the suffix is compared as it is written, without lower()
out_path_of_case_sensitive(path) ==
    LET stem == path_stem(path.name)
        suffix == path_suffix(path.name)
    IN IF suffix \in EXCEL_SUFFIXES
       THEN with_name(path, stem \o LONG_TAG \o (IF suffix # <<>> THEN suffix ELSE XLSX))
       ELSE with_name(path, stem \o LONG_TAG \o CSV)

\* the path written to and the format, from input_path.stem and .suffix
out_path_of(path) ==
    LET stem == path_stem(path.name)
        suffix == path_suffix(path.name)
    IN IF lower(suffix) \in EXCEL_SUFFIXES
       THEN with_name(path, stem \o LONG_TAG \o (IF suffix # <<>> THEN suffix ELSE XLSX))
       ELSE with_name(path, stem \o LONG_TAG \o CSV)

out_format_of(path) ==
    IF lower(path_suffix(path.name)) \in EXCEL_SUFFIXES THEN "excel" ELSE "csv"

\* the long table of a block, or the error of the reshape
reshape(data_block, idn) ==
    LET header == header_names(data_block)
        rows == Tail(data_block)
        df == dropna_all(DataFrame(rows, header))
        id_col == id_col_of(idn, header)
    IN IF ~HasColumn(df, id_col) THEN Raise("MissingIdentifierColumn")
       ELSE IF ValueCols(df, id_col, 1) = <<>> THEN Raise("NoValueColumns")
       ELSE Return([columns |-> <<id_col, var_name, value_name>>,
                    records |-> drop_na_values(melt(df, id_col))])

\* the outcomes of writing table to out_path: written in full, or an OSError
\* that leaves the path as it was or holding part of the output
write_outcomes(fs, path, table) ==
    LET out_path == out_path_of(path)
    IN {[ret |-> Return(out_path),
         files |-> WriteFile(fs, out_path, Written(out_format_of(path), table))],
        [ret |-> Raise("OSError"), files |-> fs],
        [ret |-> Raise("OSError"), files |-> WriteFile(fs, out_path, Partial)]}

\* mutant: the output file is opened for writing before the reshape
wide_to_long_from_excel_opens_output_first(fs, path, hc, idn) ==
    IF path \notin DOMAIN fs THEN {[ret |-> Raise("FileNotFound"), files |-> fs]}
    ELSE IF fs[path].kind # "workbook"
    THEN {[ret |-> Raise("UnreadableWorkbook"), files |-> fs]}
    ELSE LET block == read_block_from_header(fs[path].sheet, hc)
         IN IF ~block.ok THEN {[ret |-> block, files |-> fs]}
            ELSE LET long == reshape(block.value, idn)
                 IN IF ~long.ok
                    THEN {[ret |-> long,
                           files |-> WriteFile(fs, out_path_of(path), Partial)]}
                    ELSE write_outcomes(fs, path, long.value)

\* the set of outcomes [ret, files] of one call
wide_to_long_from_excel(fs, path, hc, idn) ==
    IF path \notin DOMAIN fs THEN {[ret |-> Raise("FileNotFound"), files |-> fs]}
    ELSE IF fs[path].kind # "workbook"
    THEN {[ret |-> Raise("UnreadableWorkbook"), files |-> fs]}
    ELSE LET block == read_block_from_header(fs[path].sheet, hc)
         IN IF ~block.ok THEN {[ret |-> block, files |-> fs]}
            ELSE LET long == reshape(block.value, idn)
                 IN IF ~long.ok THEN {[ret |-> long, files |-> fs]}
                    ELSE write_outcomes(fs, path, long.value)

(***************************************************************************)
(* ConvertWorker.  A thread is its constructor arguments, its place in     *)
(* run() and the signals it has emitted, in order; delivered counts those  *)
(* the main thread has handled.                                            *)
(***************************************************************************)
NoneS == [t |-> "None", s |-> <<>>, n |-> 0]   \* None where a str is optional

Signal(sig, n, path, kind) == [sig |-> sig, n |-> n, path |-> path, kind |-> kind]
NoPath == [parent |-> <<>>, name |-> <<>>]
progressed(n) == Signal("progressed", n, NoPath, "none")
logged(msg) == Signal("logged", 0, NoPath, msg)
failed(kind) == Signal("failed", 0, NoPath, kind)
succeeded(path) == Signal("succeeded", 0, path, "none")
finished == Signal("finished", 0, NoPath, "none")

\* ConvertWorker.__init__: id_col_name or None
ConvertWorker(path, hc, id_text) ==
    [path |-> path, header_cell |-> hc,
     id_col_name |-> IF id_text = <<>> THEN NoneS ELSE StrV(id_text),
     pc |-> "begin", signals |-> <<>>, delivered |-> 0]

Emit(th, sigs, pc) == [th EXCEPT !.signals = @ \o sigs, !.pc = pc]

\* run(), up to the first check
run_begin(th) == Emit(th, <<progressed(5), logged("start")>>, "validate")

\* run(), the two checks made before the conversion
run_validate(th, fs) ==
    IF th.path \notin DOMAIN fs THEN Emit(th, <<failed("FileNotFound")>>, "returned")
    ELSE IF ~A1_REGEX_match(th.header_cell)
    THEN Emit(th, <<failed("InvalidAddress")>>, "returned")
    ELSE Emit(th, <<progressed(20), logged("read")>>, "convert")

\* mutant: the last two checkpoints are emitted whatever the call did
signals_after_convert_always_100(r) ==
    <<progressed(90), logged("write"), progressed(100), logged("done")>>
    \o (IF r.ok THEN <<succeeded(r.value)>> ELSE <<failed(r.kind)>>)

\* run(), after wide_to_long_from_excel returned or raised r
signals_after_convert(r) ==
    IF r.ok
    THEN <<progressed(90), logged("write"), progressed(100), logged("done"),
           succeeded(r.value)>>
    ELSE <<failed(r.kind)>>

Running(th) == th.pc # "finished"

(***************************************************************************)
(* MainWindow.start_convert and the slots connected to a worker's signals  *)
(***************************************************************************)
\* Path(text): the text up to its last "/" is the parent, the rest the name
RECURSIVE rfind_slash(_)
rfind_slash(text) ==
    IF text = <<>> THEN 0
    ELSE IF text[Len(text)] = "/" THEN Len(text)
    ELSE rfind_slash(SubSeq(text, 1, Len(text) - 1))

Path(text) ==
    LET i == rfind_slash(text)
    IN [parent |-> SubSeq(text, 1, i - 1), name |-> SubSeq(text, i + 1, Len(text))]

DEFAULT_HEADER == <<"A","1">>

\* header = self.ed_header.text().strip() or "A1"
form_header(header_text) ==
    IF strip(header_text) = <<>> THEN DEFAULT_HEADER ELSE strip(header_text)

\* the three checks of start_convert: the message of the alert, "" when all pass
start_convert_alert(fs, path_text, header_text) ==
    IF strip(path_text) = <<>> THEN "no file chosen"
    ELSE IF Path(strip(path_text)) \notin DOMAIN fs THEN "file does not exist"
    ELSE IF ~A1_REGEX_match(form_header(header_text)) THEN "bad header cell"
    ELSE ""

\* mutant: the run button is left enabled when a worker is started
run_button_after_start_left_enabled == TRUE

\* self.btn_run.setEnabled(False)
run_button_after_start == FALSE

\* the slot a signal is connected to, as its effect on progress, dialog and
\* btn_run: progress.setValue, _log, _failed, _done and the lambda on finished
slot_progress(sig, old) ==
    CASE sig.sig = "progressed" -> sig.n
      [] sig.sig = "failed" -> 0
      [] sig.sig = "succeeded" -> 100
      [] OTHER -> old

slot_dialog(sig, old) ==
    CASE sig.sig = "failed" -> "critical"
      [] sig.sig = "succeeded" -> "information"
      [] OTHER -> old

slot_button(sig, old) == IF sig.sig = "finished" THEN TRUE ELSE old

(***************************************************************************)
(* Values the variables hold where a specification does not use them.      *)
(***************************************************************************)
NoSheet == MkSheet(1, 1, {}, {})
NoFiles == [p \in {} |-> Garbage]
NoThreads == <<>>

(***************************************************************************)
(* SpecResolve: a1_to_rc called on every string of at most MaxAddrLen      *)
(* characters over AddrChars.                                              *)
(***************************************************************************)
AddrChars == {"A", "b", "Z", "0", "1", "9", " ", "-"}

InitResolve ==
    /\ header_cell \in StringsUpTo(AddrChars, MaxAddrLen)
    /\ ws = NoSheet
    /\ ret = NotCalled
    /\ input_path = NoPath
    /\ id_col_name = NoneS
    /\ files = NoFiles
    /\ files_before = NoFiles
    /\ threads = NoThreads
    /\ btn_run_enabled = TRUE
    /\ progress = 0
    /\ dialog = "none"

CallA1ToRc ==
    /\ ret = NotCalled
    /\ ret' = a1_to_rc(header_cell)
    /\ UNCHANGED <<header_cell, ws, input_path, id_col_name, files, files_before,
                   threads, btn_run_enabled, progress, dialog>>

SpecResolve == InitResolve /\ [][CallA1ToRc]_vars

(***************************************************************************)
(* SpecExtract: read_block_from_header called on every worksheet of at     *)
(* most MaxRow rows and MaxCol columns from each anchor of Anchors.         *)
(***************************************************************************)
Anchors == {<<"A","1">>, <<"B","1">>, <<"A","2">>, <<"b","2">>}

InitExtract ==
    /\ header_cell \in Anchors
    /\ \E R \in 1..MaxRow, C \in 1..MaxCol :
         \E filled \in FilledSets(R, C) :
           \E spaces \in SUBSET filled : ws = MkSheet(R, C, filled, spaces)
    /\ ret = NotCalled
    /\ input_path = NoPath
    /\ id_col_name = NoneS
    /\ files = NoFiles
    /\ files_before = NoFiles
    /\ threads = NoThreads
    /\ btn_run_enabled = TRUE
    /\ progress = 0
    /\ dialog = "none"

CallReadBlock ==
    /\ ret = NotCalled
    /\ ret' = read_block_from_header(ws, header_cell)
    /\ UNCHANGED <<header_cell, ws, input_path, id_col_name, files, files_before,
                   threads, btn_run_enabled, progress, dialog>>

SpecExtract == InitExtract /\ [][CallReadBlock]_vars

(***************************************************************************)
(* SpecReshape: wide_to_long_from_excel called on a readable workbook      *)
(* d.xlsx holding any worksheet of at most MaxRow rows and MaxCol columns. *)
(***************************************************************************)
DataDir == <<"/","d","a","t","a">>
InputXlsx == [parent |-> DataDir, name |-> <<"d">> \o XLSX]
ReshapeAnchors == {<<"A","1">>, <<"b","2">>}
IdNames == {NoneS, StrV(<<>>), StrV(<<"b","1">>), StrV(<<"A","1">>)}

InitReshape ==
    /\ header_cell \in ReshapeAnchors
    /\ ws = NoSheet
    /\ ret = NotCalled
    /\ input_path = InputXlsx
    /\ id_col_name \in IdNames
    /\ \E R \in 1..MaxRow, C \in 1..MaxCol :
         \E filled \in FilledSets(R, C) :
           \E spaces \in SUBSET filled :
             files = WriteFile(NoFiles, InputXlsx, Workbook(MkSheet(R, C, filled, spaces)))
    /\ files_before = files
    /\ threads = NoThreads
    /\ btn_run_enabled = TRUE
    /\ progress = 0
    /\ dialog = "none"

CallWideToLong ==
    /\ ret = NotCalled
    /\ \E o \in wide_to_long_from_excel(files, input_path, header_cell, id_col_name) :
         /\ ret' = o.ret
         /\ files' = o.files
    /\ UNCHANGED <<header_cell, ws, input_path, id_col_name, files_before,
                   threads, btn_run_enabled, progress, dialog>>

SpecReshape == InitReshape /\ [][CallWideToLong]_vars

(***************************************************************************)
(* The steps of a ConvertWorker thread                                     *)
(***************************************************************************)
RunBegin ==
    \E i \in 1..Len(threads) :
        /\ threads[i].pc = "begin"
        /\ threads' = [threads EXCEPT ![i] = run_begin(@)]
        /\ UNCHANGED <<header_cell, ws, ret, input_path, id_col_name, files,
                       files_before, btn_run_enabled, progress, dialog>>

RunValidate ==
    \E i \in 1..Len(threads) :
        /\ threads[i].pc = "validate"
        /\ threads' = [threads EXCEPT ![i] = run_validate(@, files)]
        /\ UNCHANGED <<header_cell, ws, ret, input_path, id_col_name, files,
                       files_before, btn_run_enabled, progress, dialog>>

RunConvert ==
    \E i \in 1..Len(threads) :
        /\ threads[i].pc = "convert"
        /\ \E o \in wide_to_long_from_excel(files, threads[i].path,
                                           threads[i].header_cell,
                                           threads[i].id_col_name) :
              /\ files' = o.files
              /\ threads' = [threads EXCEPT
                               ![i] = Emit(@, signals_after_convert(o.ret), "returned")]
        /\ UNCHANGED <<header_cell, ws, ret, input_path, id_col_name,
                       files_before, btn_run_enabled, progress, dialog>>

\* QThread emits finished once run() has returned
ThreadFinished ==
    \E i \in 1..Len(threads) :
        /\ threads[i].pc = "returned"
        /\ threads' = [threads EXCEPT ![i] = Emit(@, <<finished>>, "finished")]
        /\ UNCHANGED <<header_cell, ws, ret, input_path, id_col_name, files,
                       files_before, btn_run_enabled, progress, dialog>>

(***************************************************************************)
(* SpecWorker: one ConvertWorker, constructed with any of the arguments    *)
(* below and started, on a file system that holds at the input path        *)
(* nothing, an unreadable file or a workbook of at most MaxWorkerRow rows  *)
(* and MaxWorkerCol columns, and at the output path nothing or an older    *)
(* output.                                                                 *)
(***************************************************************************)
InputNames == {<<"d">> \o XLSX, <<"d">> \o upper(XLSX),
               <<"d",".","t","x","t">>, <<"d">>}
WorkerHeaders == {<<"A","1">>, <<"b","2">>, <<"A","0","1">>}
WorkerIds == {<<>>, <<"b","1">>, <<"A","1">>}

InitWorker ==
    /\ header_cell = <<>>
    /\ ws = NoSheet
    /\ ret = NotCalled
    /\ input_path = NoPath
    /\ id_col_name = NoneS
    /\ \E name \in InputNames, hc \in WorkerHeaders, id_text \in WorkerIds :
         LET path == [parent |-> DataDir, name |-> name]
         IN /\ threads = <<ConvertWorker(path, hc, id_text)>>
            /\ \E old \in SUBSET {out_path_of(path)} :
                 LET fs0 == [q \in old |-> OldOutput]
                 IN \/ files = fs0
                    \/ files = WriteFile(fs0, path, Garbage)
                    \/ \E R \in 1..MaxWorkerRow, C \in 1..MaxWorkerCol :
                         \E filled \in FilledSets(R, C) :
                           \E spaces \in SUBSET filled :
                             files = WriteFile(fs0, path,
                                               Workbook(MkSheet(R, C, filled, spaces)))
    /\ files_before = files
    /\ btn_run_enabled = TRUE
    /\ progress = 0
    /\ dialog = "none"

NextWorker == RunBegin \/ RunValidate \/ RunConvert \/ ThreadFinished

SpecWorker == InitWorker /\ [][NextWorker]_vars

(***************************************************************************)
(* Spec: the form.  The user clicks the run button with any of the field   *)
(* texts below, closes message boxes, and the main thread handles the      *)
(* signals of the workers in the order each worker emitted them.           *)
(***************************************************************************)
FormPaths == {<<>>, <<" ">> \o DataDir \o <<"/","d">> \o XLSX,
              DataDir \o <<"/","n","o">> \o XLSX}
FormHeaders == {<<>>, <<"b","2">>, <<"A","0","1">>}
FormIds == {<<>>, <<"A","1">>}
FormSheets == {MkSheet(2, 2, (1..2) \X (1..2), {}), MkSheet(1, 1, {}, {})}

Init ==
    /\ header_cell = <<>>
    /\ ws = NoSheet
    /\ ret = NotCalled
    /\ input_path = NoPath
    /\ id_col_name = NoneS
    /\ \E sheet \in FormSheets : files = WriteFile(NoFiles, InputXlsx, Workbook(sheet))
    /\ files_before = files
    /\ threads = NoThreads
    /\ btn_run_enabled = TRUE
    /\ progress = 0
    /\ dialog = "none"

\* a click on btn_run: a disabled button emits no click, and neither does a
\* window behind a message box
StartConvert ==
    /\ btn_run_enabled
    /\ dialog = "none"
    /\ Len(threads) < MaxClicks
    /\ \E path_text \in FormPaths, header_text \in FormHeaders, id_text \in FormIds :
         IF start_convert_alert(files, path_text, header_text) # ""
         THEN /\ dialog' = "warning"
              /\ UNCHANGED <<threads, btn_run_enabled, progress, files_before>>
         ELSE /\ progress' = 0
              /\ btn_run_enabled' = run_button_after_start
              /\ threads' = Append(threads,
                                   ConvertWorker(Path(strip(path_text)),
                                                 form_header(header_text),
                                                 strip(id_text)))
              /\ files_before' = files
              /\ UNCHANGED dialog
    /\ UNCHANGED <<header_cell, ws, ret, input_path, id_col_name, files>>

\* the user closes the message box
CloseDialog ==
    /\ dialog # "none"
    /\ dialog' = "none"
    /\ UNCHANGED <<header_cell, ws, ret, input_path, id_col_name, files,
                   files_before, threads, btn_run_enabled, progress>>

\* the main thread runs the slot of the next signal of a worker
DeliverSignal ==
    \E i \in 1..Len(threads) :
        /\ threads[i].delivered < Len(threads[i].signals)
        /\ LET sig == threads[i].signals[threads[i].delivered + 1]
           IN /\ progress' = slot_progress(sig, progress)
              /\ dialog' = slot_dialog(sig, dialog)
              /\ btn_run_enabled' = slot_button(sig, btn_run_enabled)
        /\ threads' = [threads EXCEPT ![i].delivered = @ + 1]
        /\ UNCHANGED <<header_cell, ws, ret, input_path, id_col_name, files,
                       files_before>>

Next ==
    \/ StartConvert
    \/ CloseDialog
    \/ DeliverSignal
    \/ RunBegin
    \/ RunValidate
    \/ RunConvert
    \/ ThreadFinished

Spec == Init /\ [][Next]_vars


(***************************************************************************)
(* Claims about a1_to_rc (SpecResolve)                                     *)
(***************************************************************************)
\* one or more letters followed by a decimal integer with no leading zero
StrictAddress(s) ==
    \E k \in 1..(Len(s) - 1) :
        /\ \A i \in 1..k : IsLetter(s[i])
        /\ \A i \in (k + 1)..Len(s) : IsDigit(s[i])
        /\ s[k + 1] # "0"

\* C1: a1_to_rc accepts only strings that, once stripped, are letters followed
\* by a decimal integer with no leading zero, so that every address it
\* accepts has row >= 1 and column >= 1.
C1_RejectsAllButStrictAddresses ==
    ret.ok => /\ StrictAddress(strip(header_cell))
              /\ ret.value.row >= 1
              /\ ret.value.col >= 1

(***************************************************************************)
(* Claims about read_block_from_header (SpecExtract)                       *)
(***************************************************************************)
Anchor == a1_to_rc(header_cell).value
Raw == RawBlock(ws, Anchor.row, Anchor.col)
WidthOf(block) == IF block = <<>> THEN 0 ELSE Len(block[1])
Called == ret # NotCalled
\* a cell that is not empty: neither None nor text that strips to ""
Filled(v) == ~(v.t = "None" \/ (v.t = "str" /\ \A i \in 1..Len(v.s) : IsSpace(v.s[i])))
HasFilledCell(block) ==
    \E i \in 1..Len(block) : \E j \in 1..WidthOf(block) : Filled(block[i][j])

\* C4 as claimed: every block returned has a non-empty cell in its first row
C4_FirstRowNeverEmpty ==
    ret.ok => \E j \in 1..Len(ret.value[1]) : Filled(ret.value[1][j])

\* C4 as amended: read_block_from_header fails with EmptyBlock exactly when
\* no rows exist at the anchor or every cell read is empty; a block it returns
\* has a row and a column, and a non-empty cell in its last row and in its
\* last column (its first row may be empty).
C4_EmptyBlockIffNothingFilled ==
    Called =>
        LET raw == Raw
            b == ret.value
        IN /\ ~HasFilledCell(raw) => ret = Raise("EmptyBlock")
           /\ HasFilledCell(raw) => ret.ok
           /\ ret.ok =>
                /\ Len(b) >= 1
                /\ Len(b[1]) >= 1
                /\ \E j \in 1..Len(b[1]) : Filled(b[Len(b)][j])
                /\ \E i \in 1..Len(b) : Filled(b[i][Len(b[1])])

\* C4 witness: a block is returned whose first row is all empty
C4_Witness ==
    /\ ret.ok
    /\ \A j \in 1..Len(ret.value[1]) : ~Filled(ret.value[1][j])

\* C5: the block returned is the raw block without its maximal trailing run of
\* all-empty columns and then without the maximal trailing run of rows that
\* are empty within the columns kept; no non-empty cell is removed.
C5_TrimsMaximalTrailingRuns ==
    ret.ok =>
        LET raw == Raw
            b == ret.value
            nr == Len(b)
            nc == Len(b[1])
        IN /\ nr <= Len(raw) /\ nc <= WidthOf(raw)
           /\ \A i \in 1..nr : b[i] = SubSeq(raw[i], 1, nc)
           /\ \A j \in (nc + 1)..WidthOf(raw) : \A i \in 1..Len(raw) : ~Filled(raw[i][j])
           /\ \E i \in 1..Len(raw) : Filled(raw[i][nc])
           /\ \A i \in (nr + 1)..Len(raw) : \A j \in 1..nc : ~Filled(raw[i][j])
           /\ \E j \in 1..nc : Filled(raw[nr][j])
           /\ \A i \in 1..Len(raw) : \A j \in 1..WidthOf(raw) :
                Filled(raw[i][j]) => (i <= nr /\ j <= nc)

\* C5 witness: a 3x3 block whose third row and third column are empty, and
\* whose second row and second column are not, comes back as a 2x2 block
C5_Witness ==
    /\ ret.ok
    /\ Len(Raw) = 3 /\ WidthOf(Raw) = 3
    /\ Len(ret.value) = 2 /\ Len(ret.value[1]) = 2
    /\ \E j \in 1..2 : Raw[3][j] = SpaceV

(***************************************************************************)
(* Claims about the reshape (SpecReshape)                                  *)
(***************************************************************************)
InputSheet == files_before[input_path].sheet
Block == read_block_from_header(InputSheet, header_cell)
LongTable == files[ret.value].table
LongRecords == LongTable.records
Supplied == id_col_name.t = "str" /\ id_col_name.s # <<>>
\* the header names as derived from the first row of the block: the trimmed
\* text of the cell, or col_<position> when the cell is empty
DerivedName(b, i) ==
    IF Filled(b[1][i]) THEN strip(str(b[1][i])) ELSE COL_PREFIX \o str_int(i)
\* the position of the identifier column
IdPos(b) ==
    IF Supplied THEN CHOOSE j \in 1..Len(b[1]) : DerivedName(b, j) = id_col_name.s
    ELSE 1

\* C2 as claimed: the long table is in row-major order
C2_RowMajorOrder ==
    ret.ok =>
        LET recs == LongRecords
        IN \A k \in 1..Len(recs) : \A l \in (k + 1)..Len(recs) :
              \/ recs[k].row < recs[l].row
              \/ /\ recs[k].row = recs[l].row
                 /\ recs[k].col < recs[l].col

\* C2 as amended: the long table is in column-major order: a record of an
\* earlier value column precedes a record of a later one, and within one
\* value column the records are in data-row order.
C2_ColumnMajorOrder ==
    ret.ok =>
        LET recs == LongRecords
        IN \A k \in 1..Len(recs) : \A l \in (k + 1)..Len(recs) :
              \/ recs[k].col < recs[l].col
              \/ /\ recs[k].col = recs[l].col
                 /\ recs[k].row < recs[l].row

\* C2 witness: a record of a later data row precedes one of an earlier row
C2_Witness ==
    /\ ret.ok
    /\ \E k \in 1..Len(LongRecords) : \E l \in (k + 1)..Len(LongRecords) :
          /\ LongRecords[k].row > LongRecords[l].row
          /\ LongRecords[k].col < LongRecords[l].col

\* C3: for every data row and every non-identifier column there is exactly one
\* record (identifier value, column name, cell value) when the cell is not
\* empty-equivalent (None, or text that strips to "") and none when it is.
C3_OneRecordPerFilledCell ==
    ret.ok =>
        LET b == Block.value
            recs == LongRecords
            idpos == IdPos(b)
        IN \A i \in 2..Len(b) : \A j \in (1..Len(b[1])) \ {idpos} :
              LET hits == {k \in 1..Len(recs) :
                              /\ recs[k].row = i - 2
                              /\ recs[k].variable = DerivedName(b, j)}
              IN IF Filled(b[i][j])
                 THEN /\ Cardinality(hits) = 1
                      /\ \A k \in hits : /\ recs[k].value = b[i][j]
                                         /\ recs[k].id = b[i][idpos]
                 ELSE hits = {}

\* C8: a supplied id_col_name is the identifier only when it equals a derived
\* header name exactly, and the call fails with MissingIdentifierColumn when it
\* equals none; when none is supplied the identifier is the first derived
\* header name and that failure does not occur.
C8_IdentifierResolution ==
    LET block == Block
    IN (Called /\ block.ok) =>
        LET b == block.value
            matches == \E j \in 1..Len(b[1]) : DerivedName(b, j) = id_col_name.s
            recs == LongRecords
            idpos == IdPos(b)
        IN /\ (Supplied /\ ~matches) => ret = Raise("MissingIdentifierColumn")
           /\ (Supplied /\ matches) => ret.kind # "MissingIdentifierColumn"
           /\ ~Supplied => ret.kind # "MissingIdentifierColumn"
           /\ ret.ok =>
                /\ LongTable.columns[1] = DerivedName(b, idpos)
                /\ \A k \in 1..Len(recs) : recs[k].id = b[recs[k].row + 2][idpos]

\* C8 witness: a supplied name that is the second header name is the identifier
C8_Witness ==
    /\ ret.ok
    /\ Supplied
    /\ IdPos(Block.value) = 2
    /\ LongRecords # <<>>

(***************************************************************************)
(* Claims about ConvertWorker.run (SpecWorker)                             *)
(***************************************************************************)
Worker == threads[1]
Emitted == Worker.signals
ProgressAt == {k \in 1..Len(Emitted) : Emitted[k].sig = "progressed"}
TerminalAt == {k \in 1..Len(Emitted) : Emitted[k].sig \in {"failed", "succeeded"}}
RunReturned == Worker.pc \in {"returned", "finished"}
FailureKinds == {"InvalidAddress", "FileNotFound", "EmptyBlock",
                 "MissingIdentifierColumn", "NoValueColumns", "UnreadableWorkbook"}

\* C6: a run that fails with an invalid address, a missing file, an empty
\* block, a missing identifier column, no value columns or an unreadable
\* workbook leaves every file, the one at the output path included, as it was
\* before the run.
C6_FailedRunLeavesFilesAsTheyWere ==
    \A k \in TerminalAt :
        (Emitted[k].sig = "failed" /\ Emitted[k].kind \in FailureKinds)
            => files = files_before

\* C6 witness: a run fails for a missing identifier column while an older
\* output lies at its output path
C6_Witness ==
    /\ RunReturned
    /\ \E k \in TerminalAt : Emitted[k] = failed("MissingIdentifierColumn")
    /\ out_path_of(Worker.path) \in DOMAIN files_before

\* C7: the progress values a run emits are integers in 0..100 that never
\* decrease; the run emits exactly one terminal signal, succeeded with the
\* output path or failed with an error, after all its progress values; the
\* last progress value of a successful run is 100 and a failing run never
\* emits 100.
C7_ProgressThenOneTerminalSignal ==
    /\ \A k \in ProgressAt : Emitted[k].n \in 0..100
    /\ \A k \in ProgressAt : \A l \in ProgressAt : k < l => Emitted[k].n <= Emitted[l].n
    /\ Cardinality(TerminalAt) <= 1
    /\ RunReturned <=> Cardinality(TerminalAt) = 1
    /\ \A k \in TerminalAt :
          /\ \A l \in ProgressAt : l < k
          /\ Emitted[k].sig = "succeeded" =>
                /\ Emitted[k].path \in DOMAIN files
                /\ \E l \in ProgressAt : /\ Emitted[l].n = 100
                                         /\ \A m \in ProgressAt : m <= l
          /\ Emitted[k].sig = "failed" =>
                /\ Emitted[k].kind # "none"
                /\ \A l \in ProgressAt : Emitted[l].n # 100

\* C7 witness: a run has succeeded
C7_Witness ==
    /\ RunReturned
    /\ \E k \in TerminalAt : Emitted[k].sig = "succeeded"
    /\ Cardinality(ProgressAt) = 4

\* the extension of a file name: from its last dot on, when that dot neither
\* starts nor ends the name
LastDot(name) ==
    IF \E i \in 1..Len(name) : name[i] = "."
    THEN CHOOSE i \in 1..Len(name) :
            name[i] = "." /\ \A j \in (i + 1)..Len(name) : name[j] # "."
    ELSE 0
HasExtension(name) == 1 < LastDot(name) /\ LastDot(name) < Len(name)
Extension(name) ==
    IF HasExtension(name) THEN SubSeq(name, LastDot(name), Len(name)) ELSE <<>>
Stem(name) == IF HasExtension(name) THEN SubSeq(name, 1, LastDot(name) - 1) ELSE name
Recognized(ext) ==
    \E e \in EXCEL_SUFFIXES :
        Len(e) = Len(ext) /\ \A i \in 1..Len(e) : lower_ch(ext[i]) = e[i]

\* C9: the path a successful run returns is in the input file's directory and
\* is named <stem>_long<ext>, ext being the input's own extension when that is
\* a spreadsheet extension whatever its case and .csv otherwise; the file at
\* that path is the one the run wrote, and no other file changed.
C9_OutputPathNaming ==
    \A k \in TerminalAt :
        Emitted[k].sig = "succeeded" =>
            LET out == Emitted[k].path
                name == Worker.path.name
                ext == Extension(name)
            IN /\ out.parent = Worker.path.parent
               /\ out.name = Stem(name) \o LONG_TAG \o (IF Recognized(ext) THEN ext ELSE CSV)
               /\ out \in DOMAIN files
               /\ files[out].kind = (IF Recognized(ext) THEN "excel" ELSE "csv")
               /\ \A q \in (DOMAIN files) \ {out} :
                     q \in DOMAIN files_before /\ files[q] = files_before[q]

\* C9 witness: a run on d.XLSX has succeeded
C9_Witness ==
    /\ RunReturned
    /\ \E k \in TerminalAt : Emitted[k].sig = "succeeded"
    /\ Worker.path.name = <<"d">> \o upper(XLSX)

(***************************************************************************)
(* Claims about the form (Spec)                                            *)
(***************************************************************************)
RunningThreads == {i \in 1..Len(threads) : Running(threads[i])}
FinishedHandled(i) ==
    /\ threads'[i].delivered = threads[i].delivered + 1
    /\ threads[i].signals[threads'[i].delivered].sig = "finished"

\* C10: at most one worker is running at any time and the run button is
\* disabled while one is; a worker is started only by a click that disables
\* the enabled button; the button is enabled again only by the slot of the
\* latest worker's finished signal; a click that ends in an alert starts no
\* worker and leaves the button enabled.
C10_AtMostOneWorkerRunning ==
    /\ [](Cardinality(RunningThreads) <= 1)
    /\ [](RunningThreads # {} => ~btn_run_enabled)
    /\ [][Len(threads') > Len(threads) =>
            /\ btn_run_enabled /\ ~btn_run_enabled'
            /\ threads'[Len(threads')].pc = "begin"]_vars
    /\ [][(~btn_run_enabled /\ btn_run_enabled') =>
            /\ Len(threads') = Len(threads)
            /\ FinishedHandled(Len(threads))]_vars
    /\ [][(dialog = "none" /\ dialog' = "warning") =>
            /\ threads' = threads
            /\ btn_run_enabled /\ btn_run_enabled']_vars

\* C10 witness: a second worker runs after the first has finished
C10_Witness ==
    /\ Len(threads) = 2
    /\ ~Running(threads[1])
    /\ threads[2].pc = "convert"
    /\ ~btn_run_enabled

====
